---- MODULE Spec2Model ----
(***************************************************************************)
(* State-machine model of PolygonMaskInstance                              *)
(* (src/plugins/polygonMask/src/PolygonMaskInstance.ts): the lifecycle     *)
(* (init / resize / debounce timer / stop), the asynchronous loads with    *)
(* their single suspension point (the fetch of a URL source), and the      *)
(* cache/force logic of _downloadSvgPath and _parseSvgPath.                *)
(*                                                                         *)
(* JavaScript is single threaded: every handler runs to its first await    *)
(* without interleaving, so each action below is one such synchronous run. *)
(* Optional fields (raw, paths, offset) are option values None / Some(v).  *)
(* Coordinates are integers; the documents and canvas sizes are chosen so  *)
(* that every division of the offset formula is exact.                     *)
(***************************************************************************)
EXTENDS Integers, Sequences, FiniteSets, TLC

\* ---------------------------------------------------------------- bounds
MaxInits == 2
MaxResizes == 3
MaxLoads == 2

\* ------------------------------------------------------- option values
None == [some |-> FALSE]
Some(v) == [some |-> TRUE, val |-> v]

\* ------------------------------------------------------- configuration
MaskTypes == {"none", "inside", "outside", "inline"}
Sources == {"url", "data", "nosource"}

\* options.scale and retina.pixelRatio read by init()
OptionsScale == 2
PixelRatio == 1
\* particles.number.value of the lifecycle configurations
DefaultNumber == 4
\* options.move.radius
OptionsMoveRadius == 3
\* options.position ?? { x: 50, y: 50 }
PositionX == 50
PositionY == 50

\* container.canvas.size values the host may set
CanvasSizes == {[width |-> 800, height |-> 600], [width |-> 400, height |-> 300]}
InitialCanvasSize == [width |-> 800, height |-> 600]

\* SVG documents: width/height attributes of the svg element and its path
\* elements (anchor points, getTotalLength(), presence of the d attribute)
Docs == {"A", "B"}
DataDoc == "A"

Pt(px, py) == [x |-> px, y |-> py]

\* Documents of the query specification, loaded on a 20 x 20 canvas at scale 2:
\*   S  a square, loads as (0,0),(10,0),(10,10),(0,10)
\*   R  a rectangle, loads as (4,6),(16,6),(16,14),(4,14)
\*   L  one path with two anchors (a line), loads as (0,0),(10,0)
\*   E  an svg element without path elements
\*   M  three open paths of lengths 4, 6 and 10
QDocs == {"S", "R", "L", "E", "M"}
QCanvasSize == [width |-> 20, height |-> 20]

DocOf(d) ==
    CASE d = "A" ->
         [width |-> 100, height |-> 50,
          paths |-> << [points |-> <<Pt(0, 0), Pt(100, 0), Pt(100, 50), Pt(0, 50)>>,
                        length |-> 300, hasD |-> TRUE] >>]
      [] d = "S" ->
         [width |-> 10, height |-> 10,
          paths |-> << [points |-> <<Pt(0, 0), Pt(5, 0), Pt(5, 5), Pt(0, 5)>>,
                        length |-> 20, hasD |-> TRUE] >>]
      [] d = "R" ->
         [width |-> 6, height |-> 4,
          paths |-> << [points |-> <<Pt(0, 0), Pt(6, 0), Pt(6, 4), Pt(0, 4)>>,
                        length |-> 20, hasD |-> TRUE] >>]
      [] d = "L" ->
         [width |-> 10, height |-> 10,
          paths |-> << [points |-> <<Pt(0, 0), Pt(5, 0)>>, length |-> 5, hasD |-> TRUE] >>]
      [] d = "E" ->
         [width |-> 10, height |-> 10, paths |-> <<>>]
      [] d = "M" ->
         [width |-> 10, height |-> 10,
          paths |-> << [points |-> <<Pt(0, 0), Pt(4, 0)>>, length |-> 4, hasD |-> TRUE],
                       [points |-> <<Pt(4, 0), Pt(4, 6)>>, length |-> 6, hasD |-> TRUE],
                       [points |-> <<Pt(0, 10), Pt(10, 10)>>, length |-> 10, hasD |-> TRUE] >>]
      [] OTHER ->
         [width |-> 60, height |-> 40,
          paths |-> << [points |-> <<Pt(0, 0), Pt(60, 0), Pt(30, 40)>>,
                        length |-> 160, hasD |-> TRUE] >>]

\* fetch(url): an ok response, a response with !req.ok, a rejected promise
FetchOutcomes == {"ok", "notok", "neterr"}

VARIABLES
    cfg,            \* container.actualOptions.polygon (read-only for the instance)
    canvasSize,     \* container.canvas.size
    served,         \* the document the server currently answers for options.url
    raw,            \* this.raw
    paths,          \* this.paths
    offset,         \* this.offset
    dimension,      \* this.dimension
    scale,          \* this._scale
    redrawTimeout,  \* this.redrawTimeout (0 = undefined)
    pendingTimers,  \* timer ids scheduled by window.setTimeout and not yet fired or cleared
    timerSeq,       \* number of timer ids handed out by window.setTimeout
    tasks,          \* the loads started so far (init() calls and timer callbacks), in start order
    loadedFrom,     \* index in tasks of the load whose parse wrote the current polygon state (0 = none)
    resizes,        \* number of resize() calls
    bursts,         \* number of resize() calls that found no timer pending
    burstLen,       \* number of resize() calls since the last one that found no timer pending
    stopped,        \* number of consecutive stop() calls just executed (0 = last step was not stop)
    data,           \* options.data: the inline document
    arrangement,    \* options.inline.arrangement
    number,         \* container.actualOptions.particles.number.value
    sampler,        \* the position of a particlePosition() call inside _randomPoint
    res,            \* the last query made by the host: its arguments and what it returned
    moveRadius      \* this._moveRadius

\* the host's inputs to the queries and their record
qvars == <<data, arrangement, number, sampler, res, moveRadius>>

vars == <<cfg, canvasSize, served, raw, paths, offset, dimension, scale, redrawTimeout,
          pendingTimers, timerSeq, tasks, loadedFrom, resizes, bursts, burstLen, stopped,
          data, arrangement, number, sampler, res, moveRadius>>

\* the polygon options a container can carry (options = FALSE: no polygon options at all)
Configs ==
    { c \in [options : BOOLEAN, enable : BOOLEAN, type : MaskTypes, source : Sources] :
        ~c.options => (~c.enable /\ c.type = "none" /\ c.source = "nosource") }

\* The lifecycle code reads the type only as type !== none (resize), so one
\* type other than none stands for inside, outside and inline here.
LifecycleConfigs == { c \in Configs : c.type \in {"none", "inside"} }

\* the enable flag is not consulted
EnabledIgnored == cfg.options

\* options?.enable
Enabled == cfg.options /\ cfg.enable

\* ------------------------------------------------------ pure operators

RECURSIVE MapPoints(_, _, _)
\* one path's anchors scaled and translated
MapPoints(pts, sc, off) ==
    IF pts = <<>> THEN <<>>
    ELSE <<Pt(Head(pts).x * sc + off.x, Head(pts).y * sc + off.y)>> \o MapPoints(Tail(pts), sc, off)

RECURSIVE parsePaths(_, _, _)
\* parsePaths(paths, scale, offset): the flattened point list of all paths
parsePaths(ps, sc, off) ==
    IF ps = <<>> THEN <<>>
    ELSE MapPoints(Head(ps).points, sc, off) \o parsePaths(Tail(ps), sc, off)

\* a collection that keeps the first path element only
PathsOfDocFirstOnly(d) ==
    [i \in 1..(IF Len(DocOf(d).paths) > 0 THEN 1 ELSE 0) |->
        [points |-> DocOf(d).paths[i].points, length |-> DocOf(d).paths[i].length,
         hasD |-> DocOf(d).paths[i].hasD, path2d |-> "none"]]

\* this.paths.push({ element: path, length: path.getTotalLength() })
PathsOfDoc(d) ==
    [i \in 1..Len(DocOf(d).paths) |->
        [points |-> DocOf(d).paths[i].points, length |-> DocOf(d).paths[i].length,
         hasD |-> DocOf(d).paths[i].hasD, path2d |-> "none"]]

\* a centering that subtracts the whole dimension
OffsetForWholeDimension(size, dim) ==
    Pt((size.width * PositionX) \div 100 - dim.width,
       (size.height * PositionY) \div 100 - dim.height)

\* centering of the polygon mask
OffsetFor(size, dim) ==
    Pt((size.width * PositionX) \div 100 - dim.width \div 2,
       (size.height * PositionY) \div 100 - dim.height \div 2)

DimensionFor(d, sc) == [width |-> DocOf(d).width * sc, height |-> DocOf(d).height * sc]

\* a cache test that never hits
UseCacheNever(ps, force) == FALSE

\* a cache test that does not look at force
UseCacheIgnoresForce(ps, force) == ps.some

\* forceDownload = force ?? false ; the cache test of _parseSvgPath / _downloadSvgPath
UseCache(ps, force) == ps.some /\ ~force

\* The polygon state as one record, to thread it through the helpers
Poly == [raw |-> raw, paths |-> paths, offset |-> offset, dimension |-> dimension]

\* _parseSvgPath(xml, force): the new polygon state, the returned point list
\* and whether the document was parsed
ParseSvgPath(st, d, force, size, sc) ==
    IF UseCache(st.paths, force)
    THEN [st |-> st, ret |-> st.raw, parsed |-> FALSE, hadCache |-> st.paths.some]
    ELSE LET dim == DimensionFor(d, sc)
             off == OffsetFor(size, dim)
             ps  == PathsOfDoc(d)
         IN [st |-> [raw |-> st.raw, paths |-> Some(ps), offset |-> Some(off), dimension |-> dim],
             ret |-> Some(parsePaths(ps, sc, off)),
             parsed |-> TRUE, hadCache |-> st.paths.some]

\* _createPath2D(): (re)builds path.path2d of every path
CreatePath2D(st) ==
    IF ~cfg.options \/ ~st.paths.some \/ st.paths.val = <<>>
    THEN st
    ELSE [st EXCEPT !.paths = Some([i \in 1..Len(st.paths.val) |->
            [st.paths.val[i] EXCEPT !.path2d =
                IF st.paths.val[i].hasD THEN "d"
                ELSE IF st.raw.some THEN "raw" ELSE "none"]])]

\* ------------------------------------------------------------- tasks

\* One load: an init() call or the callback of a resize timer.
\*   pc          "fetch" while awaiting fetch(url), "done" once returned, "error" once thrown
\*   doc         the document the server answered to this load's request
\*   fetched     a network request was issued       parsed   the document was parsed
\*   notified    polygonMaskLoaded events dispatched by this load
\*   readyAtNotify  raw, paths and offset were all present when the event was dispatched
\*   redraws     container.particles.redraw() calls made by this load
\*   hadCache    this.paths was present when this load reached _parseSvgPath
NewTask(kind, force) ==
    [kind |-> kind, force |-> force, pc |-> "done", doc |-> "", fetched |-> FALSE,
     parsed |-> FALSE, notified |-> 0, readyAtNotify |-> FALSE, redraws |-> 0,
     hadCache |-> FALSE]

\* a timer callback that does not redraw
RedrawsNever(kind) == 0

\* the timer callback calls redraw() after _initRawData(true) has returned
RedrawsAfterLoad(kind) == IF kind = "timer" THEN 1 ELSE 0

\* an _initRawData that dispatches the event before it loads
FinishLoadNotifyFirst(st, t) ==
    [st |-> CreatePath2D(st),
     task |-> [t EXCEPT !.pc = "done", !.notified = @ + 1,
                        !.readyAtNotify = (raw.some /\ paths.some /\ offset.some),
                        !.redraws = RedrawsAfterLoad(t.kind)]]

\* the tail of _initRawData after this.raw was assigned:
\* _createPath2D(), then dispatchEvent("polygonMaskLoaded"); then the caller goes on
FinishLoad(st, t) ==
    [st |-> CreatePath2D(st),
     task |-> [t EXCEPT !.pc = "done", !.notified = @ + 1, !.readyAtNotify = (st.raw.some /\ st.paths.some /\ st.offset.some),
                        !.redraws = RedrawsAfterLoad(t.kind)]]

\* _initRawData(force) up to its first await (or to its end when it does not await)
InitRawData(kind, force, sc) ==
    LET t0 == NewTask(kind, force) IN
    IF ~cfg.options
    THEN [st |-> Poly, task |-> [t0 EXCEPT !.redraws = RedrawsAfterLoad(kind)]]
    ELSE IF cfg.source = "url"
    THEN \* _downloadSvgPath(options.url, force)
         IF UseCache(paths, force)
         THEN FinishLoad(Poly, t0)
         ELSE [st |-> Poly, task |-> [t0 EXCEPT !.pc = "fetch", !.doc = served, !.fetched = TRUE]]
    ELSE IF cfg.source = "data"
    THEN LET r == ParseSvgPath(Poly, data, force, canvasSize, sc)
         IN FinishLoad([r.st EXCEPT !.raw = r.ret], [t0 EXCEPT !.parsed = r.parsed, !.hadCache = r.hadCache])
    ELSE FinishLoad(Poly, t0)

\* a continuation that calls _parseSvgPath(text) without passing force on
AfterFetchDropsForce(t, sc) ==
    LET r == ParseSvgPath(Poly, t.doc, FALSE, canvasSize, sc)
    IN FinishLoad([r.st EXCEPT !.raw = r.ret], [t EXCEPT !.parsed = r.parsed, !.hadCache = r.hadCache])

\* the continuation of _downloadSvgPath / _initRawData after a successful response
AfterFetch(t, sc) ==
    LET r == ParseSvgPath(Poly, t.doc, t.force, canvasSize, sc)
    IN FinishLoad([r.st EXCEPT !.raw = r.ret], [t EXCEPT !.parsed = r.parsed, !.hadCache = r.hadCache])

SetPoly(st) ==
    /\ raw' = st.raw
    /\ paths' = st.paths
    /\ offset' = st.offset
    /\ dimension' = st.dimension

\* a clearTimeout that cancels nothing
ClearTimeoutNoop(pending, id) == pending

\* window.clearTimeout(id)
ClearTimeout(pending, id) == pending \ {id}

\* a resize() that never cancels the timer it replaces
CancelPreviousNever(pending, rt) == pending

\* if (this.redrawTimeout) { clearTimeout(this.redrawTimeout); }
CancelPrevious(pending, rt) == IF rt # 0 THEN ClearTimeout(pending, rt) ELSE pending

\* ----------------------------------------------------------- the state

\* no particlePosition() call is inside _randomPoint
Idle == [pc |-> "idle", count |-> 0, attempts |-> 0]
\* the host has made no query yet
NoQuery == [op |-> "none"]

\* number of init() calls so far
Inits == Cardinality({i \in 1..Len(tasks) : tasks[i].kind = "init"})
\* number of timer callbacks started so far
Fired == Cardinality({i \in 1..Len(tasks) : tasks[i].kind = "timer"})

Init ==
    /\ cfg \in LifecycleConfigs
    /\ canvasSize = InitialCanvasSize
    /\ served \in Docs
    /\ raw = None
    /\ paths = None
    /\ offset = None
    /\ dimension = [width |-> 0, height |-> 0]
    /\ scale = 1
    /\ redrawTimeout = 0
    /\ pendingTimers = {}
    /\ timerSeq = 0
    /\ tasks = <<>>
    /\ loadedFrom = 0
    /\ resizes = 0
    /\ bursts = 0
    /\ burstLen = 0
    /\ stopped = 0
    /\ data = DataDoc
    /\ arrangement = "onePerPoint"
    /\ number = DefaultNumber
    /\ sampler = Idle
    /\ res = NoQuery
    /\ moveRadius = 0

\* init()
InitCall ==
    /\ Inits < MaxInits
    /\ Len(tasks) < MaxLoads
    /\ LET sc == IF cfg.options THEN OptionsScale * PixelRatio ELSE scale
           r  == IF Enabled THEN InitRawData("init", FALSE, sc)
                 ELSE [st |-> Poly, task |-> NewTask("init", FALSE)]
       IN /\ scale' = sc
          /\ SetPoly(r.st)
          /\ tasks' = Append(tasks, r.task)
          /\ loadedFrom' = IF r.task.parsed THEN Len(tasks) + 1 ELSE loadedFrom
    /\ stopped' = 0
    /\ moveRadius' = (IF cfg.options THEN OptionsMoveRadius * PixelRatio ELSE moveRadius)
    /\ UNCHANGED <<data, arrangement, number, sampler, res>>
    /\ UNCHANGED <<cfg, canvasSize, served, redrawTimeout, pendingTimers, timerSeq,
                   resizes, bursts, burstLen>>

\* the host sets canvas.size to sz and signals resize()
Resize(sz) ==
    /\ resizes < MaxResizes
    /\ resizes' = resizes + 1
    /\ canvasSize' = sz
    /\ IF ~(Enabled /\ cfg.type # "none")
       THEN UNCHANGED <<redrawTimeout, pendingTimers, timerSeq, bursts, burstLen>>
       ELSE /\ timerSeq' = timerSeq + 1
            /\ redrawTimeout' = timerSeq + 1
            /\ pendingTimers' =
                 CancelPrevious(pendingTimers, redrawTimeout) \cup {timerSeq + 1}
            /\ bursts' = IF pendingTimers = {} THEN bursts + 1 ELSE bursts
            /\ burstLen' = IF pendingTimers = {} THEN 1 ELSE burstLen + 1
    /\ stopped' = 0
    /\ UNCHANGED qvars
    /\ UNCHANGED <<cfg, served, raw, paths, offset, dimension, scale, tasks, loadedFrom>>

\* a timer callback that does nothing once the polygon was discarded
TimerFireUnlessStopped(id) ==
    /\ id \in pendingTimers
    /\ Len(tasks) < MaxLoads
    /\ pendingTimers' = pendingTimers \ {id}
    /\ LET r == IF stopped >= 1
                THEN [st |-> Poly, task |-> NewTask("timer", TRUE)]
                ELSE InitRawData("timer", TRUE, scale)
       IN /\ SetPoly(r.st)
          /\ tasks' = Append(tasks, r.task)
          /\ loadedFrom' = IF r.task.parsed THEN Len(tasks) + 1 ELSE loadedFrom
    /\ stopped' = 0
    /\ UNCHANGED qvars
    /\ UNCHANGED <<cfg, canvasSize, served, scale, redrawTimeout, timerSeq, resizes,
                   bursts, burstLen>>

\* the 250 ms timer id fires: await this._initRawData(true); await container.particles.redraw()
TimerFire(id) ==
    /\ id \in pendingTimers
    /\ Len(tasks) < MaxLoads
    /\ pendingTimers' = pendingTimers \ {id}
    /\ LET r == InitRawData("timer", TRUE, scale)
       IN /\ SetPoly(r.st)
          /\ tasks' = Append(tasks, r.task)
          /\ loadedFrom' = IF r.task.parsed THEN Len(tasks) + 1 ELSE loadedFrom
    /\ stopped' = 0
    /\ UNCHANGED qvars
    /\ UNCHANGED <<cfg, canvasSize, served, scale, redrawTimeout, timerSeq, resizes,
                   bursts, burstLen>>

\* fetch(url) of load i resolves with an ok response and req.text() delivers the body
FetchOk(i) ==
    /\ i \in 1..Len(tasks)
    /\ tasks[i].pc = "fetch"
    /\ LET r == AfterFetch(tasks[i], scale)
       IN /\ SetPoly(r.st)
          /\ tasks' = [tasks EXCEPT ![i] = r.task]
          /\ loadedFrom' = IF r.task.parsed THEN i ELSE loadedFrom
    /\ stopped' = 0
    /\ UNCHANGED qvars
    /\ UNCHANGED <<cfg, canvasSize, served, scale, redrawTimeout, pendingTimers, timerSeq,
                   resizes, bursts, burstLen>>

\* a failure path that also drops the loaded polygon
FetchFailClearsRaw(i, outcome) ==
    /\ i \in 1..Len(tasks)
    /\ tasks[i].pc = "fetch"
    /\ outcome \in FetchOutcomes \ {"ok"}
    /\ tasks' = [tasks EXCEPT ![i].pc = "error"]
    /\ raw' = None
    /\ stopped' = 0
    /\ UNCHANGED qvars
    /\ UNCHANGED <<cfg, canvasSize, served, paths, offset, dimension, scale, redrawTimeout,
                   pendingTimers, timerSeq, loadedFrom, resizes, bursts, burstLen>>

\* fetch(url) of load i resolves with !req.ok ("notok") or rejects ("neterr"): the load throws
FetchFail(i, outcome) ==
    /\ i \in 1..Len(tasks)
    /\ tasks[i].pc = "fetch"
    /\ outcome \in FetchOutcomes \ {"ok"}
    /\ tasks' = [tasks EXCEPT ![i].pc = "error"]
    /\ stopped' = 0
    /\ UNCHANGED qvars
    /\ UNCHANGED <<cfg, canvasSize, served, raw, paths, offset, dimension, scale, redrawTimeout,
                   pendingTimers, timerSeq, loadedFrom, resizes, bursts, burstLen>>

\* a stop() that forgets to delete this.paths
StopKeepsPaths ==
    /\ stopped < 2
    /\ stopped' = stopped + 1
    /\ UNCHANGED qvars
    /\ raw' = None
    /\ UNCHANGED <<cfg, canvasSize, served, paths, offset, dimension, scale, redrawTimeout,
                   pendingTimers, timerSeq, tasks, loadedFrom, resizes, bursts, burstLen>>

\* stop()
Stop ==
    /\ stopped < 2
    /\ stopped' = stopped + 1
    /\ UNCHANGED qvars
    /\ raw' = None
    /\ paths' = None
    /\ UNCHANGED <<cfg, canvasSize, served, offset, dimension, scale, redrawTimeout,
                   pendingTimers, timerSeq, tasks, loadedFrom, resizes, bursts, burstLen>>

\* the content behind options.url changes on the server
ServerChange(d) ==
    /\ cfg.source = "url"
    /\ d \in Docs
    /\ d # served
    /\ served' = d
    /\ stopped' = 0
    /\ UNCHANGED qvars
    /\ UNCHANGED <<cfg, canvasSize, raw, paths, offset, dimension, scale, redrawTimeout,
                   pendingTimers, timerSeq, tasks, loadedFrom, resizes, bursts, burstLen>>

Next ==
    \/ InitCall
    \/ \E sz \in CanvasSizes : Resize(sz)
    \/ \E id \in 1..MaxResizes + 1 : TimerFire(id)
    \/ \E i \in 1..MaxLoads + 1 : FetchOk(i)
    \/ \E i \in 1..MaxLoads + 1, o \in FetchOutcomes : FetchFail(i, o)
    \/ Stop
    \/ \E d \in Docs : ServerChange(d)

Spec == Init /\ [][Next]_vars

TypeOK ==
    /\ cfg \in Configs
    /\ canvasSize \in CanvasSizes
    /\ served \in Docs
    /\ raw.some \in BOOLEAN
    /\ paths.some \in BOOLEAN
    /\ offset.some \in BOOLEAN
    /\ redrawTimeout \in 0..MaxResizes
    /\ pendingTimers \subseteq 1..MaxResizes
    /\ Len(tasks) <= MaxLoads

\* ------------------------------------------------------------ geometry

\* a returned value, a thrown error
Ok(v) == [err |-> "", val |-> v]
Err(e) == [err |-> e]
noPolygonDataLoaded == "No polygon data loaded."
noPolygonFound == "No polygon found, you need to specify SVG url in config."

\* the point at arc length num / den of path k (element.getPointAtLength),
\* scaled by this._scale and translated by this.offset
OnPath(k, num, den) == [path |-> k, num |-> num, den |-> den]

\* intersect = pi.y > y !== pj.y > y && x < ((pj.x - pi.x) * (y - pi.y)) / (pj.y - pi.y) + pi.x
\* (the division is cleared by multiplying with pj.y - pi.y, which is not 0 here)
Crosses(pi, pj, x, y) ==
    /\ (pi.y > y) # (pj.y > y)
    /\ LET d == pj.y - pi.y
           n == (pj.x - pi.x) * (y - pi.y)
       IN IF d > 0 THEN (x - pi.x) * d < n ELSE (x - pi.x) * d > n

\* the index j of the loops "for (i = 0, j = length - 1; i < length; j = i++)", 1-based
PrevIndex(r, i) == IF i = 1 THEN Len(r) ELSE i - 1

\* a loop that sets the inside flag at an intersecting edge instead of toggling it
RayCastAnyCrossing(r, x, y) ==
    \E i \in 1..Len(r) :
        /\ (r[i].y > y) # (r[PrevIndex(r, i)].y > y)
        /\ LET d == r[PrevIndex(r, i)].y - r[i].y
               n == (r[PrevIndex(r, i)].x - r[i].x) * (y - r[i].y)
           IN IF d > 0 THEN (x - r[i].x) * d < n ELSE (x - r[i].x) * d > n

\* the inside flag after the loop: toggled once per intersecting edge
RayCast(r, x, y) ==
    Cardinality({i \in 1..Len(r) : Crosses(r[i], r[PrevIndex(r, i)], x, y)}) % 2 = 1

\* a containment test that returns the flag for outside as well
CheckInsidePolygonSameFlag(c, r, pos) ==
    IF ~(c.options /\ c.enable) \/ c.type = "none" \/ c.type = "inline" THEN Ok(TRUE)
    ELSE IF ~r.some THEN Err(noPolygonFound)
    ELSE Ok(RayCast(r.val, pos.x, pos.y))

\* _checkInsidePolygon(position) for options c and this.raw = r
CheckInsidePolygonFor(c, r, pos) ==
    IF ~(c.options /\ c.enable) \/ c.type = "none" \/ c.type = "inline" THEN Ok(TRUE)
    ELSE IF ~r.some THEN Err(noPolygonFound)
    ELSE LET inside == RayCast(r.val, pos.x, pos.y)
         IN Ok(IF c.type = "inside" THEN inside
               ELSE IF c.type = "outside" THEN ~inside
               ELSE FALSE)

CheckInsidePolygon(pos) == CheckInsidePolygonFor(cfg, raw, pos)

\* getDistances(a, b): dx, dy and the squared distance
GetDistances(a, b) ==
    [dx |-> a.x - b.x, dy |-> a.y - b.y,
     d2 |-> (a.x - b.x) * (a.x - b.x) + (a.y - b.y) * (a.y - b.y)]

\* calcClosestPtOnSegment(s1, s2, pos): the projection of pos on the line s1-s2,
\* clamped to the end points (exact for the axis-parallel edges used here)
calcClosestPtOnSegment(s1, s2, pos) ==
    LET dx  == pos.x - s1.x
        dy  == pos.y - s1.y
        dxx == s2.x - s1.x
        dyy == s2.y - s1.y
        n   == dx * dxx + dy * dyy
        d   == dxx * dxx + dyy * dyy
    IN IF d = 0 THEN s1
       ELSE IF n < 0 THEN s1
       ELSE IF n > d THEN s2
       ELSE Pt(s1.x + (dxx * n) \div d, s1.y + (dyy * n) \div d)

\* segmentBounce(start, stop, velocity): the velocity mirrored at the wall
\* (v - 2 (v.n) n with n the unit normal; exact for axis-parallel walls)
segmentBounce(start, stop, v) ==
    LET dx == start.x - stop.x
        dy == start.y - stop.y
        l2 == dx * dx + dy * dy
        k  == 2 * (v.x * dy - v.y * dx)
    IN IF l2 = 0 THEN v
       ELSE Pt(v.x - (k * dy) \div l2, v.y + (k * dx) \div l2)

\* ------------------------------------------------------------- sampler

RawLoaded == raw.some /\ Len(raw.val) > 0
PathsLoaded == paths.some /\ Len(paths.val) > 0

\* a vertex picker without the data-not-loaded guard
GetPointByIndexUnguarded(index) ==
    IF ~raw.some \/ Len(raw.val) = 0 THEN Ok(Pt(0, 0))
    ELSE Ok(Pt(raw.val[(index % Len(raw.val)) + 1].x, raw.val[(index % Len(raw.val)) + 1].y))

\* _getPointByIndex(index)
GetPointByIndex(index) ==
    IF ~RawLoaded THEN Err(noPolygonDataLoaded)
    ELSE Ok(Pt(raw.val[(index % Len(raw.val)) + 1].x, raw.val[(index % Len(raw.val)) + 1].y))

\* _getRandomPoint() when itemFromArray draws the 0-based index k
GetRandomPoint(k) ==
    IF ~RawLoaded THEN Err(noPolygonDataLoaded)
    ELSE Ok(Pt(raw.val[k + 1].x, raw.val[k + 1].y))

\* _getRandomPointByLength() when itemFromArray draws path k (1-based) and
\* Math.floor(getRandom() * path.length) + 1 is dist
GetRandomPointByLength(k, dist) ==
    IF ~cfg.options THEN Ok(None)
    ELSE IF ~RawLoaded \/ ~PathsLoaded THEN Err(noPolygonDataLoaded)
    ELSE Ok(Some(OnPath(k, dist, 1)))

RECURSIVE SumLengths(_, _)
\* the lengths of the first k paths added up
SumLengths(ps, k) == IF k = 0 THEN 0 ELSE ps[k].length + SumLengths(ps, k - 1)

\* totalLength = this.paths.reduce((tot, path) => tot + path.length, 0)
TotalLength(ps) == SumLengths(ps, Len(ps))

\* a walk that forgets offset += path.length
EquidistantWalkNoOffset(ps, index, n) ==
    LET hit == {k \in 1..Len(ps) : TotalLength(ps) * index <= ps[k].length * n}
    IN IF hit = {} THEN None
       ELSE LET k == CHOOSE h \in hit : \A g \in hit : h <= g
            IN Some(OnPath(k, TotalLength(ps) * index, n))

\* the loop of _getEquidistantPointByIndex: the first path whose end is not
\* before distance * index, with pathDistance = distance * index - offset.
\* distance = totalLength / n is kept as a fraction: all lengths are times n.
EquidistantWalk(ps, index, n) ==
    LET hit == {k \in 1..Len(ps) :
                   TotalLength(ps) * index - SumLengths(ps, k - 1) * n <= ps[k].length * n}
    IN IF hit = {} THEN None
       ELSE LET k == CHOOSE h \in hit : \A g \in hit : h <= g
            IN Some(OnPath(k, TotalLength(ps) * index - SumLengths(ps, k - 1) * n, n))

\* _getEquidistantPointByIndex(index); without a point found, or with
\* number.value = 0 (distance is Infinity or NaN), the result is the bare offset
GetEquidistantPointByIndex(index) ==
    IF ~cfg.options THEN Ok(None)
    ELSE IF ~RawLoaded \/ ~PathsLoaded THEN Err(noPolygonDataLoaded)
    ELSE LET w == IF number = 0 THEN None ELSE EquidistantWalk(paths.val, index, number)
         IN IF w.some THEN Ok(w)
            ELSE Ok(Some(Pt(IF offset.some THEN offset.val.x ELSE 0,
                            IF offset.some THEN offset.val.y ELSE 0)))

\* ------------------------------------------------------------- queries

Arrangements == {"onePerPoint", "perPoint", "randomPoint", "randomLength", "equidistant"}
Directions == {"bottom", "left", "right", "top"}

\* bound: the attempts counted inside _randomPoint (the loop itself is not capped)
MaxAttempts == 2
\* bound: the largest container.particles.count the host passes
MaxCount == 5

\* values of getRandom() * canvasSize.width / height that the model draws
CanvasSamples == {2, 5, 10, 15}
\* positions the host asks about
ClickPoints == {Pt(5, 5), Pt(15, 15), Pt(-1, -1), Pt(10, 12), Pt(2, 8)}
\* particles the host hands to particleBounce: position, velocity, radius, initialPosition
BounceParticles ==
    [position : {Pt(5, 5), Pt(15, 2), Pt(15, 15), Pt(9, 5)}, velocity : {Pt(2, -4)},
     radius : {2}, initialPosition : {Some(Pt(5, 0))}]
\* positions the host passes to particlePosition
GivenPositions == {Pt(5, 5), Pt(15, 15)}

\* the position inside the result of a strategy that returns ICoordinates | undefined
Unwrap(r) == IF r.err # "" THEN r ELSE Ok(r.val.val)

\* the candidates one pass of _randomPoint can come up with
RandomCandidates(count) ==
    IF cfg.type = "inline"
    THEN CASE arrangement = "randomPoint" ->
                IF RawLoaded THEN {GetRandomPoint(k) : k \in 0..Len(raw.val) - 1}
                ELSE {Err(noPolygonDataLoaded)}
           [] arrangement = "randomLength" ->
                IF RawLoaded /\ PathsLoaded
                THEN UNION {{Unwrap(GetRandomPointByLength(k, d)) :
                                d \in 1..(IF paths.val[k].length < 1 THEN 1 ELSE paths.val[k].length)} :
                            k \in 1..Len(paths.val)}
                ELSE {Err(noPolygonDataLoaded)}
           [] arrangement = "equidistant" ->
                {Unwrap(GetEquidistantPointByIndex(count))}
           [] OTHER -> {GetPointByIndex(count)}
    ELSE {Ok(Pt(x, y)) : x \in CanvasSamples, y \in CanvasSamples}

\* Object identity of a position handed out: FreshObject is an object made for
\* the caller; [gen, idx] is the element idx of the raw array written by load gen.
FreshObject == [gen |-> 0, idx |-> 0]

\* a hand-out of the element of raw itself
VertexItself(i) == [gen |-> loadedFrom, idx |-> i]

\* { x: coords.x, y: coords.y } / addParticle({ x: item.x, y: item.y }): an object
\* literal filled from element i of raw
VertexCopy(i) == FreshObject

\* deepExtend({}, source): the object returned is the new {} it was given
DeepExtendTarget == FreshObject

\* the record of a finished particlePosition() call
PositionResult(arg, count, out, retried) ==
    [op |-> "particlePosition", arg |-> arg, count |-> count, out |-> out, retried |-> retried,
     ref |-> DeepExtendTarget]

\* a pass of _randomPoint that hands its candidate out without the containment test
RandomPointPassUnchecked(c, count, att) ==
    /\ sampler' = Idle
    /\ res' = PositionResult(None, count, IF c.err # "" THEN c ELSE Ok(Some(c.val)), att > 1)

\* a pass of _randomPoint that gives up after MaxAttempts candidates
RandomPointPassCapped(c, count, att) ==
    LET chk == IF c.err # "" THEN c ELSE CheckInsidePolygon(c.val)
    IN IF chk.err # ""
       THEN /\ sampler' = Idle
            /\ res' = PositionResult(None, count, chk, att > 1)
       ELSE IF chk.val
       THEN /\ sampler' = Idle
            /\ res' = PositionResult(None, count, Ok(Some(c.val)), att > 1)
       ELSE IF att >= MaxAttempts
       THEN /\ sampler' = Idle
            /\ res' = PositionResult(None, count, Ok(None), att > 1)
       ELSE /\ sampler' = [pc |-> "retry", count |-> count, attempts |-> att]
            /\ res' = [op |-> "_randomPoint"]

\* one pass of _randomPoint with candidate c: throw, return the candidate, or recurse
RandomPointPass(c, count, att) ==
    LET chk == IF c.err # "" THEN c ELSE CheckInsidePolygon(c.val)
    IN IF chk.err # ""
       THEN /\ sampler' = Idle
            /\ res' = PositionResult(None, count, chk, att > 1)
       ELSE IF chk.val
       THEN /\ sampler' = Idle
            /\ res' = PositionResult(None, count, Ok(Some(c.val)), att > 1)
       ELSE /\ sampler' = [pc |-> "retry", count |-> count,
                           attempts |-> IF att < MaxAttempts THEN att ELSE MaxAttempts]
            /\ res' = [op |-> "_randomPoint"]

lifecycleVars == <<cfg, canvasSize, served, raw, paths, offset, dimension, scale, redrawTimeout,
                   pendingTimers, timerSeq, tasks, loadedFrom, resizes, bursts, burstLen>>

\* particlePosition(position) with container.particles.count = count
ParticlePosition(arg, count) ==
    /\ sampler.pc = "idle"
    /\ IF ~(Enabled /\ RawLoaded)
       THEN sampler' = Idle /\ res' = PositionResult(arg, count, Ok(None), FALSE)
       ELSE IF arg.some
       THEN sampler' = Idle /\ res' = PositionResult(arg, count, Ok(Some(arg.val)), FALSE)
       ELSE \E c \in RandomCandidates(count) : RandomPointPass(c, count, 1)
    /\ stopped' = 0
    /\ UNCHANGED <<lifecycleVars, data, arrangement, number, moveRadius>>

\* return this._randomPoint(): the next pass of a call whose candidate failed
RandomPointRetry ==
    /\ sampler.pc = "retry"
    /\ \E c \in RandomCandidates(sampler.count) :
          RandomPointPass(c, sampler.count, sampler.attempts + 1)
    /\ stopped' = 0
    /\ UNCHANGED <<lifecycleVars, data, arrangement, number, moveRadius>>

\* the error of a call stack that is used up
stackExhausted == "Maximum call stack size exceeded"

\* return this._randomPoint() is a nested call: each rejected candidate adds a
\* frame, and a run time that keeps the frames ends the call with a RangeError
\* once they use up its stack.  The depth at which that happens is the run
\* time's; here it can happen from MaxAttempts rejected candidates on.
RandomPointOverflow ==
    /\ sampler.pc = "retry"
    /\ sampler.attempts >= MaxAttempts
    /\ sampler' = Idle
    /\ res' = PositionResult(None, sampler.count, Err(stackExhausted), TRUE)
    /\ stopped' = 0
    /\ UNCHANGED <<lifecycleVars, data, arrangement, number, moveRadius>>

\* _drawPoints(): the positions handed to container.particles.addParticle, in order
DrawPoints == IF ~raw.some THEN <<>> ELSE [i \in 1..Len(raw.val) |-> Pt(raw.val[i].x, raw.val[i].y)]

\* _drawPoints(): the identity of each object handed to addParticle
DrawPointsRefs == IF ~raw.some THEN <<>> ELSE [i \in 1..Len(raw.val) |-> VertexCopy(i)]

\* a particlesInitialization() that looks at the arrangement only
HandlesInitializationAnyType ==
    Enabled /\ arrangement \in {"onePerPoint", "perPoint"}

\* the condition of particlesInitialization()
HandlesInitialization ==
    Enabled /\ cfg.type = "inline" /\ arrangement \in {"onePerPoint", "perPoint"}

\* particlesInitialization()
ParticlesInitialization ==
    /\ sampler.pc = "idle"
    /\ res' = [op |-> "particlesInitialization", ret |-> HandlesInitialization,
               spawned |-> IF HandlesInitialization THEN DrawPoints ELSE <<>>,
               refs |-> IF HandlesInitialization THEN DrawPointsRefs ELSE <<>>]
    /\ stopped' = 0
    /\ UNCHANGED <<lifecycleVars, data, arrangement, number, sampler, moveRadius>>

\* clickPositionValid(position)
ClickPositionValid(pos) ==
    /\ sampler.pc = "idle"
    /\ res' = [op |-> "clickPositionValid", pos |-> pos,
               out |-> IF Enabled /\ cfg.type # "none" /\ cfg.type # "inline"
                       THEN CheckInsidePolygon(pos) ELSE Ok(FALSE)]
    /\ stopped' = 0
    /\ UNCHANGED <<lifecycleVars, data, arrangement, number, sampler, moveRadius>>

\* the last edge the loop of _polygonBounce looks at: (raw[n-1], raw[n-2]), 1-based
LastEdgeClosest(r, pos) == calcClosestPtOnSegment(r[Len(r)], r[PrevIndex(r, Len(r))], pos)

\* the edges within the particle's radius, in loop order
EdgesInReach(r, pos, radius) ==
    {i \in 1..Len(r) :
        GetDistances(pos, calcClosestPtOnSegment(r[i], r[PrevIndex(r, i)], pos)).d2 < radius * radius}

\* a diameter that is four times the radius
DiameterDoubled(radius) == radius * 4

\* diameter = radius * 2
Diameter(radius) == radius * 2

\* the snap of _polygonBounce: one diameter from closest, on the side given by factor
SnapPosition(closest, pos, radius) ==
    Pt(closest.x + Diameter(radius) * (IF pos.x >= closest.x THEN -1 ELSE 1),
       closest.y + Diameter(radius) * (IF pos.y >= closest.y THEN -1 ELSE 1))

\* a _polygonBounce without the test of the direction
PolygonBounceAnyDirection(particle, direction) ==
    IF ~raw.some \/ ~Enabled THEN [ret |-> FALSE, particle |-> particle]
    ELSE [ret |-> TRUE, particle |-> [particle EXCEPT !.velocity = Pt(0 - @.x, 0 - @.y)]]

\* _polygonBounce(particle, delta, direction): the return value and the particle afterwards
PolygonBounce(particle, direction) ==
    IF ~raw.some \/ ~Enabled \/ direction # "top"
    THEN [ret |-> FALSE, particle |-> particle]
    ELSE IF cfg.type = "inside" \/ cfg.type = "outside"
    THEN LET r    == raw.val
             pos  == particle.position
             near == EdgesInReach(r, pos, particle.radius)
         IN IF near # {}
            THEN LET i == CHOOSE h \in near : \A g \in near : h <= g
                 IN [ret |-> TRUE,
                     particle |-> [particle EXCEPT
                                      !.velocity = segmentBounce(r[i], r[PrevIndex(r, i)], @)]]
            ELSE IF Len(r) > 0 /\ ~CheckInsidePolygon(pos).val
            THEN [ret |-> TRUE,
                  particle |-> [particle EXCEPT
                                   !.position = SnapPosition(LastEdgeClosest(r, pos), pos, particle.radius),
                                   !.velocity = Pt(0 - @.x, 0 - @.y)]]
            ELSE [ret |-> FALSE, particle |-> particle]
    ELSE IF cfg.type = "inline" /\ particle.initialPosition.some
    THEN LET d2 == GetDistances(particle.initialPosition.val, particle.position).d2
             vx == particle.velocity.y \div 2 - particle.velocity.x
         IN IF d2 > moveRadius * moveRadius
            THEN [ret |-> TRUE,
                  particle |-> [particle EXCEPT !.velocity = Pt(vx, vx \div 2 - particle.velocity.y)]]
            ELSE [ret |-> FALSE, particle |-> particle]
    ELSE [ret |-> FALSE, particle |-> particle]

\* particleBounce(particle, delta, direction)
ParticleBounce(particle, direction) ==
    /\ sampler.pc = "idle"
    /\ LET b == PolygonBounce(particle, direction)
       IN res' = [op |-> "particleBounce", before |-> particle, direction |-> direction,
                  ret |-> b.ret, after |-> b.particle]
    /\ stopped' = 0
    /\ UNCHANGED <<lifecycleVars, data, arrangement, number, sampler, moveRadius>>

\* draw(context) with options.draw.enable = drawEnable: what is stroked for each path
Draw(drawEnable) ==
    /\ sampler.pc = "idle"
    /\ res' = [op |-> "draw",
               strokes |-> IF ~(paths.some /\ Len(paths.val) > 0) \/ ~Enabled \/ ~drawEnable
                           THEN <<>>
                           ELSE [i \in 1..Len(paths.val) |->
                                   IF paths.val[i].path2d # "none" /\ offset.some THEN "path2d"
                                   ELSE IF raw.some THEN "raw" ELSE "nothing"]]
    /\ stopped' = 0
    /\ UNCHANGED <<lifecycleVars, data, arrangement, number, sampler, moveRadius>>

\* a position after its holder moved it
Moved(p) == IF "x" \in DOMAIN p THEN Pt(p.x + 1, p.y + 1) ELSE [p EXCEPT !.num = @ + 1]

\* the write of a holder to the object ref: it reaches raw when ref is an
\* element of the raw array that is loaded now
WriteThrough(ref) ==
    IF ref # FreshObject /\ raw.some /\ ref.gen = loadedFrom /\ ref.idx \in 1..Len(raw.val)
    THEN Some([raw.val EXCEPT ![ref.idx] = Moved(@)])
    ELSE raw

\* The caller moves a position it was handed: the position particlePosition()
\* returned, or the position of the particle spawned at vertex i.
CallerMoves(i) ==
    /\ sampler.pc = "idle"
    /\ \/ /\ res.op = "particlePosition" /\ i = 1
          /\ res.out.err = "" /\ res.out.val.some
          /\ res' = [op |-> "callerMove", from |-> res.op, ref |-> res.ref,
                     moved |-> Moved(res.out.val.val)]
          /\ raw' = WriteThrough(res.ref)
       \/ /\ res.op = "particlesInitialization"
          /\ i \in 1..Len(res.spawned)
          /\ res' = [op |-> "callerMove", from |-> res.op, ref |-> res.refs[i],
                     moved |-> Moved(res.spawned[i])]
          /\ raw' = WriteThrough(res.refs[i])
    /\ stopped' = 0
    /\ UNCHANGED <<cfg, canvasSize, served, paths, offset, dimension, scale, redrawTimeout,
                   pendingTimers, timerSeq, tasks, loadedFrom, resizes, bursts, burstLen>>
    /\ UNCHANGED <<data, arrangement, number, sampler, moveRadius>>

\* -------------------------------------------------- the query specification

\* The configurations of the query specification: inline data, every mask type;
\* the arrangement and number.value vary with type inline, which alone reads them
\* (other types carry the defaults).
InitQ ==
    /\ cfg \in {c \in Configs : c.options /\ c.source = "data"}
    /\ canvasSize = QCanvasSize
    /\ served = "A"
    /\ raw = None
    /\ paths = None
    /\ offset = None
    /\ dimension = [width |-> 0, height |-> 0]
    /\ scale = 1
    /\ redrawTimeout = 0
    /\ pendingTimers = {}
    /\ timerSeq = 0
    /\ tasks = <<>>
    /\ loadedFrom = 0
    /\ resizes = 0
    /\ bursts = 0
    /\ burstLen = 0
    /\ stopped = 0
    /\ data \in QDocs
    /\ arrangement \in (IF cfg.type = "inline" THEN Arrangements ELSE {"onePerPoint"})
    /\ number \in (IF cfg.type = "inline" /\ arrangement = "equidistant" THEN {0, 3, DefaultNumber}
                   ELSE {DefaultNumber})
    /\ sampler = Idle
    /\ res = NoQuery
    /\ moveRadius = 0

NextQ ==
    \/ sampler.pc = "idle" /\ InitCall
    \/ sampler.pc = "idle" /\ Stop
    \/ \E count \in 0..MaxCount : ParticlePosition(None, count)
    \/ \E p \in GivenPositions : ParticlePosition(Some(p), 0)
    \/ RandomPointRetry
    \/ RandomPointOverflow
    \/ ParticlesInitialization
    \/ \E pos \in ClickPoints : ClickPositionValid(pos)
    \/ \E particle \in BounceParticles, direction \in Directions : ParticleBounce(particle, direction)
    \/ \E drawEnable \in BOOLEAN : Draw(drawEnable)
    \/ \E i \in 1..(IF res.op = "particlesInitialization" THEN Len(res.spawned) ELSE 1) :
          CallerMoves(i)

SpecQ == InitQ /\ [][NextQ]_vars

\* a retry whose candidate passes the containment test
RetryAccepted == RandomPointRetry /\ sampler'.pc = "idle"

\* The query specification under fair random draws: a candidate that passes is
\* not missed for ever by a call that keeps drawing.
SpecQFair == SpecQ /\ WF_vars(RetryAccepted)

\* ------------------------------------------------------------- claims

\* the load whose parse wrote the polygon state in this step, if any
ParsedNow(i) == i \in 1..Len(tasks') /\ tasks'[i].parsed /\ (i > Len(tasks) \/ ~tasks[i].parsed)

\* C1: resize() calls that each arrive while the previous timer is still pending
\* form one burst; every burst leads to exactly one forced reload (one timer
\* callback, once its timer has fired), however many calls it has, and a forced
\* reload computes the offset from the canvas size of the last resize signal.
C1_OneReloadPerBurst ==
    /\ [](Fired + Cardinality(pendingTimers) = bursts)
    /\ [][\A i \in 1..MaxLoads :
            (ParsedNow(i) /\ tasks'[i].kind = "timer")
                => (canvasSize' = canvasSize /\ offset' = Some(OffsetFor(canvasSize, dimension')))]_vars

\* three resize signals in one burst, the last with a new canvas size, then one reload
C1_Witness ==
    /\ burstLen = 3
    /\ bursts = 1
    /\ pendingTimers = {}
    /\ Fired = 1
    /\ tasks[1].parsed
    /\ canvasSize # InitialCanvasSize
    /\ offset = Some(OffsetFor(canvasSize, dimension))

\* C2: at most one debounce timer is pending, it is the one stored in
\* redrawTimeout, and a timer that fires is never one that a later resize()
\* superseded.
C2_SingleTimer ==
    /\ [](Cardinality(pendingTimers) <= 1 /\ pendingTimers \subseteq {redrawTimeout})
    /\ [][\A id \in 1..MaxResizes + 1 : TimerFire(id) => id = redrawTimeout]_vars

\* a second resize() has replaced a pending timer and the replacement has fired
C2_Witness ==
    /\ timerSeq = 2
    /\ bursts = 1
    /\ Fired = 1
    /\ pendingTimers = {}

\* the load started in this step, if any (it is the last of tasks')
Started == Len(tasks') = Len(tasks) + 1
New == tasks'[Len(tasks')]

\* the fetch of load i completes in this step with an ok response
FetchedNow(i) == i \in 1..Len(tasks) /\ tasks[i].pc = "fetch" /\ tasks'[i].pc = "done"

\* this step leaves raw, paths, offset and dimension as they were
PolyUnchanged == raw' = raw /\ paths' = paths /\ offset' = offset /\ dimension' = dimension

\* the path list without the drawing cache path2d
Segments(ps) == [i \in 1..Len(ps) |-> [points |-> ps[i].points, length |-> ps[i].length]]

\* this step replaces paths, dimension, offset and raw by the parse of document d
\* against the current canvas size and scale
Replaced(d) ==
    /\ paths'.some
    /\ Segments(paths'.val) = Segments(PathsOfDoc(d))
    /\ dimension' = [width |-> DocOf(d).width * scale, height |-> DocOf(d).height * scale]
    /\ offset' = Some(OffsetFor(canvasSize, dimension'))
    /\ raw' = Some(parsePaths(PathsOfDoc(d), scale, offset'.val))

\* C3: a load with force=false that starts when a result is already cached
\* (paths present) returns at once with raw, paths, offset and dimension as
\* they were, issues no fetch and parses nothing.
C3_CachedLoadIsNoOp ==
    [][(Started /\ ~New.force /\ cfg.options /\ cfg.enable /\ paths.some)
        => (PolyUnchanged /\ New.pc = "done" /\ ~New.fetched /\ ~New.parsed)]_vars

\* init() twice on a URL source: the first fetched and parsed, the second did neither
C3_Witness ==
    /\ Len(tasks) = 2
    /\ cfg.source = "url"
    /\ tasks[1].kind = "init" /\ tasks[1].fetched /\ tasks[1].parsed /\ tasks[1].pc = "done"
    /\ tasks[2].kind = "init" /\ ~tasks[2].fetched /\ ~tasks[2].parsed /\ tasks[2].pc = "done"
    /\ raw.some
    /\ loadedFrom = 1

\* C4: a load with force=true never takes the cache: with a URL source it
\* issues a fetch and, when the response arrives, parses it and replaces
\* paths, dimension, offset and raw; with inline data it parses and replaces
\* them at once; both also when a result is cached.
C4_ForcedLoadReparses ==
    /\ [][(Started /\ New.force /\ cfg.source = "url") => (New.fetched /\ New.pc = "fetch")]_vars
    /\ [][(Started /\ New.force /\ cfg.source = "data") => (New.parsed /\ Replaced(data))]_vars
    /\ [][\A i \in 1..MaxLoads :
            (FetchedNow(i) /\ tasks[i].force) => (tasks'[i].parsed /\ Replaced(tasks[i].doc))]_vars

\* a forced reload of a URL source has fetched and parsed although paths were cached
C4_Witness ==
    \E j \in 1..Len(tasks) :
        /\ tasks[j].force /\ tasks[j].fetched /\ tasks[j].parsed /\ tasks[j].hadCache
        /\ loadedFrom = j

\* a newer forced reload than load i has completed its parse
NewerForcedDone(i) ==
    \E j \in (i + 1)..Len(tasks) : tasks[j].force /\ tasks[j].pc = "done" /\ tasks[j].parsed

C6_StopDiscardsOffset ==
    stopped >= 1 => (~raw.some /\ ~paths.some /\ ~offset.some)

\* C6 amended: after stop() raw and paths are absent while offset and dimension
\* keep their values, and a second stop() changes nothing.
C6_StopDiscardsRawAndPaths ==
    /\ [](stopped >= 1 => (~raw.some /\ ~paths.some))
    /\ [][stopped' >= 1 => (offset' = offset /\ dimension' = dimension)]_vars
    /\ [][stopped' = 2 => (PolyUnchanged /\ UNCHANGED <<cfg, canvasSize, served, scale,
            redrawTimeout, pendingTimers, timerSeq, tasks, loadedFrom>>)]_vars

\* stop() twice after a load: raw and paths are gone, the offset is still there
C6_Witness ==
    /\ stopped = 2
    /\ loadedFrom # 0
    /\ ~raw.some /\ ~paths.some
    /\ offset.some

\* C7: with enable=false nothing is ever loaded: raw, paths and offset stay
\* absent, no timer is scheduled, no load fetches, parses, notifies or redraws.
C7_DisabledStaysUnloaded ==
    ~cfg.enable =>
        /\ ~raw.some /\ ~paths.some /\ ~offset.some
        /\ pendingTimers = {} /\ timerSeq = 0 /\ redrawTimeout = 0
        /\ Fired = 0
        /\ \A i \in 1..Len(tasks) :
              ~tasks[i].fetched /\ ~tasks[i].parsed /\ tasks[i].notified = 0 /\ tasks[i].redraws = 0

\* a disabled mask after init() and two resize() calls
C7_Witness ==
    /\ cfg.options /\ ~cfg.enable /\ cfg.type # "none" /\ cfg.source = "url"
    /\ Inits >= 1
    /\ resizes >= 2

\* C8 as stated: every init() of an enabled mask that returned has emitted
\* exactly one polygonMaskLoaded, with raw, paths and offset present.
C8_InitEndsReady ==
    \A i \in 1..Len(tasks) :
        (tasks[i].kind = "init" /\ cfg.options /\ cfg.enable /\ tasks[i].pc = "done")
            => (tasks[i].notified = 1 /\ tasks[i].readyAtNotify)

\* C8 amended: the same for an enabled mask with a url or data source; and an
\* init() that has not returned normally has emitted nothing.
C8_InitWithSourceEndsReady ==
    \A i \in 1..Len(tasks) :
        (tasks[i].kind = "init" /\ cfg.options /\ cfg.enable /\ cfg.source # "nosource")
            => /\ tasks[i].pc = "done" => (tasks[i].notified = 1 /\ tasks[i].readyAtNotify)
               /\ tasks[i].pc # "done" => tasks[i].notified = 0

\* an init() of a URL source has fetched, parsed and notified with the polygon present
C8_Witness ==
    /\ Len(tasks) >= 1
    /\ tasks[1].kind = "init" /\ tasks[1].fetched /\ tasks[1].parsed /\ tasks[1].pc = "done"
    /\ tasks[1].notified = 1 /\ tasks[1].readyAtNotify
    /\ raw.some /\ paths.some /\ offset.some

\* C9 as stated: every timer callback that is no longer awaiting has reloaded
\* with force, redrawn exactly once and left the polygon present.
C9_TimerReloadsAndRedraws ==
    \A i \in 1..Len(tasks) :
        (tasks[i].kind = "timer" /\ tasks[i].pc # "fetch")
            => (tasks[i].force /\ tasks[i].parsed /\ tasks[i].redraws = 1 /\ tasks[i].readyAtNotify)

\* C9 amended: a timer callback loads with force=true; when a source is
\* configured and the load returns (for a URL: the fetch succeeds) it has
\* parsed, redrawn exactly once and left the polygon present, with dimension and
\* offset computed from the canvas size at the time of the parse; a callback
\* that is awaiting its fetch or has failed has not redrawn.
C9_TimerReloadThenRedraw ==
    /\ [](\A i \in 1..Len(tasks) :
            tasks[i].kind = "timer" =>
                /\ tasks[i].force
                /\ (tasks[i].pc = "done" /\ cfg.source # "nosource")
                      => (tasks[i].parsed /\ tasks[i].redraws = 1 /\ tasks[i].notified = 1
                          /\ tasks[i].readyAtNotify)
                /\ tasks[i].pc # "done" => (tasks[i].redraws = 0 /\ ~tasks[i].parsed))
    /\ [][\A i \in 1..MaxLoads :
            (ParsedNow(i) /\ tasks'[i].kind = "timer")
                => /\ Replaced(IF cfg.source = "url" THEN tasks'[i].doc ELSE data)
                   /\ tasks'[i].redraws = 1
                   /\ tasks'[i].pc = "done"]_vars

\* a timer-driven reload of a URL source completed after an earlier load, on a
\* canvas that was resized: it redrew once and the offset fits the new canvas
C9_Witness ==
    /\ Len(tasks) = 2
    /\ tasks[1].kind = "init" /\ tasks[1].parsed
    /\ tasks[2].kind = "timer" /\ tasks[2].fetched /\ tasks[2].parsed /\ tasks[2].redraws = 1
    /\ loadedFrom = 2
    /\ canvasSize # InitialCanvasSize
    /\ raw.some
    /\ offset = Some(OffsetFor(canvasSize, dimension))

\* C10: a load whose fetch fails (non-success response or transport error)
\* ends in an error; the step leaves raw, paths, offset and dimension as they
\* were, starts no load and issues no fetch, and the failed load has neither
\* parsed, notified nor redrawn.
C10_FetchFailureKeepsState ==
    /\ [](\A i \in 1..Len(tasks) :
            tasks[i].pc = "error"
                => (tasks[i].fetched /\ ~tasks[i].parsed /\ tasks[i].notified = 0 /\ tasks[i].redraws = 0))
    /\ [][\A i \in 1..MaxLoads :
            (i <= Len(tasks) /\ tasks[i].pc = "fetch" /\ tasks'[i].pc = "error")
                => /\ PolyUnchanged
                   /\ loadedFrom' = loadedFrom
                   /\ pendingTimers' = pendingTimers
                   /\ Len(tasks') = Len(tasks)
                   /\ \A j \in 1..Len(tasks) : j # i => tasks'[j] = tasks[j]]_vars

\* a forced reload failed in its fetch and the polygon of the earlier load is still there
C10_Witness ==
    /\ Len(tasks) = 2
    /\ tasks[1].parsed /\ tasks[1].pc = "done"
    /\ tasks[2].kind = "timer" /\ tasks[2].pc = "error"
    /\ loadedFrom = 1
    /\ raw.some /\ paths.some

\* ------------------------------------------ claims about the queries

\* a particlePosition() call returns in this step
PositionAnswered == res' # res /\ res'.op = "particlePosition"
\* a particlePosition() call returns a position in this step
PositionReturned == PositionAnswered /\ res'.out.err = "" /\ res'.out.val.some
\* a particleBounce() call returns in this step
BounceAnswered == res' # res /\ res'.op = "particleBounce"

\* C11 as stated: every position particlePosition() returns tests true under
\* the ray casting for type inside and false for type outside.
C11_ReturnedPositionContained ==
    [][(PositionReturned /\ cfg.type \in {"inside", "outside"})
        => (RayCast(raw.val, res'.out.val.val.x, res'.out.val.val.y) = (cfg.type = "inside"))]_vars

\* C11 amended: every position particlePosition() draws itself (called without
\* a position) tests true for type inside and false for type outside; a
\* position passed in is returned as it is, whatever the type; for inline and
\* none the first candidate is returned without a retry.
C11_DrawnPositionContained ==
    /\ [][(PositionReturned /\ ~res'.arg.some /\ cfg.type \in {"inside", "outside"})
            => (RayCast(raw.val, res'.out.val.val.x, res'.out.val.val.y) = (cfg.type = "inside"))]_vars
    /\ [][(PositionReturned /\ res'.arg.some) => res'.out.val = res'.arg]_vars
    /\ [][(PositionReturned /\ cfg.type \in {"inline", "none"}) => ~res'.retried]_vars

\* with type inside a drawn position was returned after a rejected candidate
C11_Witness ==
    /\ res.op = "particlePosition"
    /\ cfg.type = "inside"
    /\ ~res.arg.some
    /\ res.retried
    /\ res.out = Ok(Some(Pt(5, 5)))
    /\ data = "S" /\ raw.some

\* C12 as stated: particlePosition() on an enabled mask without a loaded
\* polygon (raw absent or empty) fails with the data-not-loaded error.
C12_PositionFailsUnloaded ==
    [][(PositionAnswered /\ cfg.options /\ cfg.enable /\ ~(raw.some /\ Len(raw.val) > 0))
        => res'.out = Err(noPolygonDataLoaded)]_vars

\* C12 amended: without a loaded polygon particlePosition() returns undefined
\* and never an error, because it does not reach the strategies; each strategy
\* (vertex by index, random vertex, random length, equidistant) fails with the
\* data-not-loaded error when it is invoked with raw absent or empty.
C12_StrategiesFailUnloaded ==
    /\ []((cfg.options /\ ~(raw.some /\ Len(raw.val) > 0)) =>
            /\ \A i \in 0..MaxCount :
                  /\ GetPointByIndex(i) = Err(noPolygonDataLoaded)
                  /\ GetEquidistantPointByIndex(i) = Err(noPolygonDataLoaded)
            /\ GetRandomPoint(0) = Err(noPolygonDataLoaded)
            /\ GetRandomPointByLength(1, 1) = Err(noPolygonDataLoaded))
    /\ [][(PositionAnswered /\ ~(raw.some /\ Len(raw.val) > 0)) => res'.out = Ok(None)]_vars
    /\ [](res.op = "particlePosition" => res.out.err # noPolygonDataLoaded)

\* particlePosition() on an enabled inline mask whose document had no path: undefined
C12_Witness ==
    /\ res.op = "particlePosition"
    /\ cfg.enable /\ cfg.type = "inline"
    /\ raw.some /\ Len(raw.val) = 0
    /\ ~res.arg.some
    /\ res.out = Ok(None)

\* C13 as stated: particlesInitialization() returns true exactly when the
\* arrangement is onePerPoint or perPoint.
C13_HandledIffArrangement ==
    res.op = "particlesInitialization" => (res.ret <=> arrangement \in {"onePerPoint", "perPoint"})

\* C13 amended: particlesInitialization() returns true exactly when the mask is
\* enabled, its type is inline and the arrangement is onePerPoint or perPoint;
\* it has then spawned one particle per vertex of raw, at the vertex and in
\* order (none when raw is absent); otherwise it returns false and spawns nothing.
C13_HandledIffInlinePerPoint ==
    /\ [](res.op = "particlesInitialization" =>
            /\ res.ret <=> (cfg.options /\ cfg.enable /\ cfg.type = "inline"
                            /\ arrangement \in {"onePerPoint", "perPoint"})
            /\ ~res.ret => res.spawned = <<>>)
    /\ [][(res' # res /\ res'.op = "particlesInitialization" /\ res'.ret) =>
            IF raw.some
            THEN /\ Len(res'.spawned) = Len(raw.val)
                 /\ \A i \in 1..Len(raw.val) :
                       res'.spawned[i].x = raw.val[i].x /\ res'.spawned[i].y = raw.val[i].y
            ELSE res'.spawned = <<>>]_vars

\* the four vertices of the loaded square were spawned in order
C13_Witness ==
    /\ res.op = "particlesInitialization"
    /\ res.ret
    /\ res.spawned = <<Pt(0, 0), Pt(10, 0), Pt(10, 10), Pt(0, 10)>>

\* C14: a particleBounce() with a direction other than top returns false and
\* leaves the particle (position, velocity) as it was.
C14_OnlyTopBounces ==
    (res.op = "particleBounce" /\ res.direction # "top")
        => (~res.ret /\ res.after = res.before)

\* a particle outside the loaded square of an inside mask, direction bottom: not handled
C14_Witness ==
    /\ res.op = "particleBounce"
    /\ res.direction = "bottom"
    /\ cfg.enable /\ cfg.type = "inside"
    /\ data = "S" /\ raw.some
    /\ res.before.position = Pt(15, 15)
    /\ ~res.ret

\* the case of C15: type inside/outside, direction top, a polygon loaded, no
\* edge within the radius, and the position fails the containment test
SnapCase ==
    /\ BounceAnswered
    /\ res'.direction = "top"
    /\ cfg.options /\ cfg.enable /\ cfg.type \in {"inside", "outside"}
    /\ raw.some /\ Len(raw.val) > 0
    /\ \A i \in 1..Len(raw.val) :
          GetDistances(res'.before.position,
                       calcClosestPtOnSegment(raw.val[i], raw.val[PrevIndex(raw.val, i)],
                                              res'.before.position)).d2
              >= res'.before.radius * res'.before.radius
    /\ RayCast(raw.val, res'.before.position.x, res'.before.position.y) # (cfg.type = "inside")

\* the position dist beyond c, per axis on the side _polygonBounce picks
Beyond(c, pos, dist) ==
    Pt(c.x + dist * (IF pos.x >= c.x THEN -1 ELSE 1), c.y + dist * (IF pos.y >= c.y THEN -1 ELSE 1))

\* C15 as stated: in that case the position becomes twice the diameter beyond
\* the closest point of the polygon boundary, the velocity is negated and the
\* call returns true.
C15_SnapTwiceDiameterFromBoundary ==
    [][SnapCase =>
        /\ res'.ret
        /\ res'.after.velocity = Pt(0 - res'.before.velocity.x, 0 - res'.before.velocity.y)
        /\ \E i \in 1..Len(raw.val) :
              LET c == calcClosestPtOnSegment(raw.val[i], raw.val[PrevIndex(raw.val, i)],
                                              res'.before.position)
              IN /\ \A j \in 1..Len(raw.val) :
                        GetDistances(res'.before.position, c).d2
                            <= GetDistances(res'.before.position,
                                   calcClosestPtOnSegment(raw.val[j], raw.val[PrevIndex(raw.val, j)],
                                                          res'.before.position)).d2
                 /\ res'.after.position = Beyond(c, res'.before.position, 2 * (2 * res'.before.radius))]_vars

\* C15 amended: in that case the position becomes one diameter (twice the
\* radius) beyond the closest point of the last edge the loop examined, the
\* edge between the last and the last but one vertex of raw; the velocity is
\* negated and the call returns true.
C15_SnapDiameterFromLastEdge ==
    [][SnapCase =>
        /\ res'.ret
        /\ res'.after.velocity = Pt(0 - res'.before.velocity.x, 0 - res'.before.velocity.y)
        /\ LET n == Len(raw.val)
               c == calcClosestPtOnSegment(raw.val[n], raw.val[IF n = 1 THEN 1 ELSE n - 1],
                                           res'.before.position)
           IN res'.after.position = Beyond(c, res'.before.position, 2 * res'.before.radius)]_vars

\* a particle at (15,2) right of the square: the boundary is closest at (10,2),
\* the last edge at (10,10); it was put to (6,14) and turned around
C15_Witness ==
    /\ res.op = "particleBounce"
    /\ res.direction = "top"
    /\ cfg.enable /\ cfg.type = "inside"
    /\ data = "S" /\ raw.some
    /\ res.before.position = Pt(15, 2)
    /\ res.before.radius = 2
    /\ res.ret
    /\ res.after.position = Pt(6, 14)
    /\ res.after.velocity = Pt(-2, 4)

\* the coordinates of the probe points: on, next to and away from the edges
\* of the loaded rectangles
GridCoords == {-1, 0, 4, 5, 6, 10, 14, 16, 17}
GridPoints == {Pt(x, y) : x \in GridCoords, y \in GridCoords}

\* the options of the current mask with another type, enabled
WithType(t) == [cfg EXCEPT !.options = TRUE, !.enable = TRUE, !.type = t]

\* C16: for a loaded polygon and any point, the containment test of type
\* outside answers the opposite of the containment test of type inside.
C16_OutsideIsComplement ==
    raw.some =>
        \A p \in GridPoints \cup ClickPoints :
            /\ CheckInsidePolygonFor(WithType("inside"), raw, p).err = ""
            /\ CheckInsidePolygonFor(WithType("outside"), raw, p).err = ""
            /\ CheckInsidePolygonFor(WithType("outside"), raw, p).val
                  = ~CheckInsidePolygonFor(WithType("inside"), raw, p).val

\* a click at (15,15), outside the loaded square, was valid for an outside mask
C16_Witness ==
    /\ res.op = "clickPositionValid"
    /\ cfg.enable /\ cfg.type = "outside"
    /\ data = "S" /\ raw.some
    /\ res.pos = Pt(15, 15)
    /\ res.out = Ok(TRUE)
    /\ CheckInsidePolygonFor(WithType("inside"), raw, Pt(15, 15)) = Ok(FALSE)

\* r is an axis-aligned rectangle, listed from its top left corner
IsRectangle(r) ==
    /\ Len(r) = 4
    /\ r[1].y = r[2].y /\ r[2].x = r[3].x /\ r[3].y = r[4].y /\ r[4].x = r[1].x
    /\ r[1].x < r[2].x /\ r[1].y < r[4].y

\* C17: for type inside the ray casting answers true for every point strictly
\* inside an axis-aligned rectangle and false for every point strictly outside
\* it; for the square (0,0),(10,0),(10,10),(0,10) it answers true at (5,5) and
\* false at (15,15) and at (-1,-1).
C17_RayCastOnRectangles ==
    /\ (raw.some /\ IsRectangle(raw.val)) =>
          \A p \in GridPoints \cup ClickPoints :
              /\ (raw.val[1].x < p.x /\ p.x < raw.val[3].x /\ raw.val[1].y < p.y /\ p.y < raw.val[3].y)
                    => CheckInsidePolygonFor(WithType("inside"), raw, p) = Ok(TRUE)
              /\ (p.x < raw.val[1].x \/ p.x > raw.val[3].x \/ p.y < raw.val[1].y \/ p.y > raw.val[3].y)
                    => CheckInsidePolygonFor(WithType("inside"), raw, p) = Ok(FALSE)
    /\ (raw.some /\ raw.val = <<Pt(0, 0), Pt(10, 0), Pt(10, 10), Pt(0, 10)>>) =>
          /\ CheckInsidePolygonFor(WithType("inside"), raw, Pt(5, 5)) = Ok(TRUE)
          /\ CheckInsidePolygonFor(WithType("inside"), raw, Pt(15, 15)) = Ok(FALSE)
          /\ CheckInsidePolygonFor(WithType("inside"), raw, Pt(-1, -1)) = Ok(FALSE)

\* a click at (5,5) was valid for an inside mask with the square loaded
C17_Witness ==
    /\ res.op = "clickPositionValid"
    /\ cfg.enable /\ cfg.type = "inside"
    /\ raw.some /\ raw.val = <<Pt(0, 0), Pt(10, 0), Pt(10, 10), Pt(0, 10)>>
    /\ res.pos = Pt(5, 5)
    /\ res.out = Ok(TRUE)

\* C18: a parse sets the offset to canvas width * position.x / 100 - dimension
\* width / 2 and canvas height * position.y / 100 - dimension height / 2; with
\* canvas 800x600, position (50,50) and dimension 200x100 that is (300,250).
C18_OffsetCentersMask ==
    [][\A i \in 1..MaxLoads :
          ParsedNow(i) =>
              /\ offset'.some
              /\ 2 * 100 * offset'.val.x = 2 * canvasSize.width * PositionX - 100 * dimension'.width
              /\ 2 * 100 * offset'.val.y = 2 * canvasSize.height * PositionY - 100 * dimension'.height
              /\ (canvasSize = [width |-> 800, height |-> 600]
                    /\ dimension' = [width |-> 200, height |-> 100]
                    /\ PositionX = 50 /\ PositionY = 50)
                    => offset' = Some(Pt(300, 250))]_vars

\* a 200x100 mask parsed on an 800x600 canvas sits at (300,250)
C18_Witness ==
    /\ loadedFrom # 0
    /\ canvasSize = [width |-> 800, height |-> 600]
    /\ dimension = [width |-> 200, height |-> 100]
    /\ offset = Some(Pt(300, 250))
    /\ raw.some /\ raw.val[1] = Pt(300, 250)

\* C19: with paths of total length L loaded and number = N > 0, the equidistant
\* sampler answers index i in 0..N-1 with the point at path length L*i/N along
\* the concatenated paths: on the first path that reaches that length, at the
\* length left after the paths before it; these lengths grow with i and lie in
\* [0, L).  (A point on path k is kept as k and the length on it times N.)
C19_EquidistantOffsets ==
    (cfg.options /\ raw.some /\ Len(raw.val) > 0 /\ paths.some /\ Len(paths.val) > 0 /\ number > 0) =>
        \A i \in 0..(number - 1) :
            LET L == TotalLength(paths.val)
                r == GetEquidistantPointByIndex(i)
            IN /\ r.err = ""
               /\ r.val.some
               /\ DOMAIN r.val.val = {"path", "num", "den"}
               /\ r.val.val.den = number
               /\ r.val.val.path \in 1..Len(paths.val)
               /\ r.val.val.num >= 0
               /\ r.val.val.num <= paths.val[r.val.val.path].length * number
               /\ SumLengths(paths.val, r.val.val.path - 1) * number + r.val.val.num = L * i
               /\ \A k \in 1..(r.val.val.path - 1) : SumLengths(paths.val, k) * number < L * i
               /\ L * i >= 0 /\ L * i < L * number
               /\ i > 0 => L * (i - 1) <= L * i

\* number 4 on the paths of lengths 4, 6, 10: index 2 is at length 10, the end
\* of the second path
C19_Witness ==
    /\ res.op = "particlePosition"
    /\ cfg.type = "inline" /\ arrangement = "equidistant"
    /\ data = "M" /\ number = 4 /\ raw.some
    /\ ~res.arg.some /\ res.count = 2
    /\ res.out = Ok(Some(OnPath(2, 24, 4)))

\* the number of anchors of the path elements of document d
AnchorCount(d) ==
    LET ps == DocOf(d).paths
        f[k \in 0..Len(ps)] == IF k = 0 THEN 0 ELSE f[k - 1] + Len(ps[k].points)
    IN f[Len(ps)]

\* C20 as stated: whenever a polygon is loaded, raw holds at least 3 points.
C20_RawHasThreePoints ==
    raw.some => Len(raw.val) >= 3

\* C20 amended: whenever a polygon is loaded, raw holds one point per anchor of
\* the path elements of the loaded document, however few: two for a document
\* with one two-point path, none for a document without path elements.
C20_RawHasOnePointPerAnchor ==
    raw.some =>
        /\ Len(raw.val) = AnchorCount(data)
        /\ paths.some /\ Len(paths.val) = Len(DocOf(data).paths)
        /\ data = "L" => Len(raw.val) = 2
        /\ data = "E" => Len(raw.val) = 0

\* the document with one two-point path is loaded, and a query ran on it
C20_Witness ==
    /\ raw.some /\ Len(raw.val) = 2
    /\ data = "L"
    /\ loadedFrom # 0
    /\ res.op = "clickPositionValid"

\* ------------------------------------------ claims about stop() and the frame

\* no load made a redraw() call in this step
NoRedraw ==
    \A i \in 1..Len(tasks') : tasks'[i].redraws = (IF i <= Len(tasks) THEN tasks[i].redraws ELSE 0)

\* C21 as stated: once stop() has discarded a loaded polygon, raw and paths
\* stay absent and nothing is redrawn until the next init(); a timer that was
\* pending at stop() does not reload the mask.
C21_StoppedUntilInit ==
    [][(loadedFrom # 0 /\ ~raw.some /\ ~paths.some /\ ~(Started /\ New.kind = "init"))
        => (~raw'.some /\ ~paths'.some /\ NoRedraw)]_vars

\* C21 amended: stop() cancels nothing: the pending timers, the timer handle
\* and the loads in flight are as before.  A timer that was pending at stop()
\* still fires and runs a forced reload: with a data source it parses, writes
\* raw, paths, offset and dimension and redraws; with a URL source it issues a
\* fetch.  The polygon stays discarded only over steps in which no timer fires,
\* no init() runs and no fetch completes.
C21_StopCancelsNothing ==
    /\ [][stopped' >= 1 => (pendingTimers' = pendingTimers /\ redrawTimeout' = redrawTimeout
                            /\ tasks' = tasks /\ loadedFrom' = loadedFrom)]_vars
    /\ [][(stopped >= 1 /\ Started /\ New.kind = "timer") =>
            /\ New.force
            /\ cfg.source = "data" =>
                  (New.parsed /\ New.pc = "done" /\ New.redraws = 1 /\ Replaced(data)
                   /\ loadedFrom' = Len(tasks'))
            /\ cfg.source = "url" =>
                  (New.pc = "fetch" /\ New.fetched /\ New.redraws = 0 /\ PolyUnchanged)]_vars
    /\ [][(~raw.some /\ ~paths.some /\ ~Started /\ \A i \in 1..MaxLoads : ~FetchedNow(i))
            => (~raw'.some /\ ~paths'.some /\ NoRedraw)]_vars

\* init() loaded a data source, stop() discarded it (the reload found no paths),
\* and the timer of a resize() reloaded the mask and redrew
C21_Witness ==
    /\ cfg.source = "data"
    /\ Len(tasks) = 2
    /\ tasks[1].kind = "init" /\ tasks[1].parsed
    /\ tasks[2].kind = "timer" /\ tasks[2].parsed /\ ~tasks[2].hadCache /\ tasks[2].redraws = 1
    /\ loadedFrom = 2
    /\ raw.some /\ paths.some
    /\ Inits = 1

\* a query runs or a caller moves a position in this step
QueryStep == res' # res \/ sampler' # sampler

\* C22: clickPositionValid, particlePosition, particleBounce,
\* particlesInitialization and draw leave raw, paths, offset and dimension as
\* they were; only a load (init) and stop() change them; every position handed
\* out is an object of its own, so a caller that moves it leaves raw as it was.
C22_QueriesLeavePolygon ==
    /\ [][QueryStep => PolyUnchanged]_vars
    /\ [][~PolyUnchanged => (Started \/ stopped' = stopped + 1)]_vars
    /\ [](res.op = "particlePosition" => res.ref = FreshObject)
    /\ [](res.op = "particlesInitialization" =>
            \A i \in 1..Len(res.refs) : res.refs[i] = FreshObject)
    /\ [][(res' # res /\ res'.op = "callerMove") => raw' = raw]_vars

\* the particle spawned at the vertex (0,0) of the loaded square was moved to
\* (1,1) and the vertex is where it was
C22_Witness ==
    /\ res.op = "callerMove"
    /\ res.from = "particlesInitialization"
    /\ res.moved = Pt(1, 1)
    /\ raw.some /\ raw.val = <<Pt(0, 0), Pt(10, 0), Pt(10, 10), Pt(0, 10)>>
    /\ paths.some /\ offset.some

\* ------------------------------------------ claims about the rejection loop

\* the candidates a pass of _randomPoint can draw that pass the containment test
Fitting ==
    {c \in RandomCandidates(sampler.count) : c.err = "" /\ CheckInsidePolygon(c.val) = Ok(TRUE)}

\* the candidates a pass of _randomPoint can draw that fail the containment test
Rejected ==
    {c \in RandomCandidates(sampler.count) : c.err = "" /\ CheckInsidePolygon(c.val) = Ok(FALSE)}

\* a call of _randomPoint is between two candidates
Retrying == sampler.pc = "retry"

\* C23 as stated: the loop has no attempt cap: a call that is retrying ends only
\* by returning a candidate, and it does not end when no candidate passes the
\* containment test.
C23_LoopEndsOnlyByReturn ==
    /\ [][(Retrying /\ sampler'.pc = "idle") => (res'.out.err = "" /\ res'.out.val.some)]_vars
    /\ [][(Retrying /\ Fitting = {}) => sampler'.pc = "retry"]_vars

\* C23 amended: _randomPoint retries only after a candidate failed the
\* containment test, by a nested call of itself; for inline and none it returns
\* the first candidate.  A call that is retrying ends only by returning a
\* candidate that passes or, where the run time keeps the frames of the nested
\* calls, by the error of the used-up call stack; the code has no cap of its
\* own.  When no candidate passes it returns no position: it retries until the
\* stack is used up.  When a candidate passes, under fair draws the call ends.
C23_LoopEndsByReturnOrStack ==
    /\ [](Retrying => (cfg.options /\ cfg.enable /\ cfg.type \in {"inside", "outside"}
                        /\ raw.some /\ Rejected # {}))
    /\ [](res.op = "particlePosition" /\ cfg.type \in {"inline", "none"} => ~res.retried)
    /\ [][(Retrying /\ sampler'.pc = "idle") =>
            \/ /\ res'.out.err = "" /\ res'.out.val.some
               /\ Ok(res'.out.val.val) \in Fitting
            \/ /\ res'.out = Err(stackExhausted)
               /\ sampler.attempts >= MaxAttempts]_vars
    /\ [][(Retrying /\ sampler'.pc = "retry") => sampler'.attempts >= sampler.attempts]_vars
    /\ [][(Retrying /\ Fitting = {}) =>
            (sampler'.pc = "retry" \/ res'.out = Err(stackExhausted))]_vars
    /\ (Retrying /\ Fitting # {}) ~> (sampler.pc = "idle")

\* type inside on the polygon of two points, which has no area: no candidate
\* passes, and the call ended with the error of the used-up stack
C23_Witness ==
    /\ res.op = "particlePosition"
    /\ cfg.enable /\ cfg.type = "inside"
    /\ data = "L" /\ raw.some /\ Len(raw.val) = 2
    /\ res.retried
    /\ res.out = Err(stackExhausted)
    /\ sampler.pc = "idle"

====
